---- MODULE Spec2Model ----
(***************************************************************************)
(* A model of rag-eval-harness: the TF-IDF retriever (retrieve.py), the    *)
(* answer scoring functions (evaluate.py) and the regression analyzer      *)
(* (report.py).                                                            *)
(*                                                                         *)
(* Strings are sequences of one-character strings.  Floating-point values  *)
(* produced by the vector space code are binary floating-point numbers     *)
(* [m, e] (value m * 2^e) rounded to nearest-even after every operation,   *)
(* with a significand of Precision bits (binary64 has 53).                 *)
(***************************************************************************)
EXTENDS Integers, Sequences, FiniteSets, TLC

VARIABLES
    retriever,   \* the TfidfRetriever object: _docs, vocabulary, idf, _doc_matrix
    ret,         \* outcome of the last TfidfRetriever call (constructor or retrieve)
    call,        \* the last scoring call of evaluate.py: function, arguments, outcome
    old_csv,     \* rows of the older scored-run table
    new_csv,     \* rows of the newer scored-run table
    cmp,         \* outcome of the last compare_runs call
    report       \* the regression report written by write_markdown_report

vars == <<retriever, ret, call, old_csv, new_csv, cmp, report>>

----------------------------------------------------------------------------
(* Bounds *)

MaxPhrases == 2      \* longest must_include / must_not_include list

----------------------------------------------------------------------------
(* Characters and strings *)

Whitespace == {" ", "\n"}

\* str.lower() on one character
LowerChar(c) == IF c = "N" THEN "n" ELSE IF c = "O" THEN "o" ELSE c

\* str.lower()
Lower(s) == [i \in 1..Len(s) |-> LowerChar(s[i])]

RECURSIVE LStrip(_)
LStrip(s) == IF s # <<>> /\ Head(s) \in Whitespace THEN LStrip(Tail(s)) ELSE s

RECURSIVE RStrip(_)
RStrip(s) ==
    IF s # <<>> /\ s[Len(s)] \in Whitespace THEN RStrip(SubSeq(s, 1, Len(s) - 1)) ELSE s

\* str.strip()
Strip(s) == RStrip(LStrip(s))

\* re.sub(r"\s+", " ", text): every run of whitespace becomes one space
RECURSIVE CollapseWs(_)
CollapseWs(s) ==
    IF s = <<>> THEN <<>>
    ELSE IF Head(s) \in Whitespace
         THEN <<" ">> \o CollapseWs(LStrip(s))
         ELSE <<Head(s)>> \o CollapseWs(Tail(s))

\* _normalize(text)
Normalize(text) == Strip(CollapseWs(Lower(text)))

\* Python's `p in a` on strings: p is a contiguous slice of a ("" is in every a)
Contains(p, a) ==
    \E i \in 0..(Len(a) - Len(p)) : SubSeq(a, i + 1, i + Len(p)) = p

----------------------------------------------------------------------------
(* evaluate.py: must_include_score, must_not_include_violations *)

\* the loop body's test `if p and p in a`
PhraseHit(a, phrase) ==
    LET p == Normalize(phrase) IN p # <<>> /\ Contains(p, a)

\* the for loop over the phrase list, counting hits
RECURSIVE CountHits(_, _)
CountHits(a, phrases) ==
    IF phrases = <<>> THEN 0
    ELSE (IF PhraseHit(a, Head(phrases)) THEN 1 ELSE 0) + CountHits(a, Tail(phrases))

\* A variant that drops the `p and` guard of the loop
must_include_score_unguarded(answer, must_include) ==
    IF must_include = <<>> THEN [num |-> 1, den |-> 1]
    ELSE [num |-> Cardinality({i \in 1..Len(must_include) :
                     Contains(Normalize(must_include[i]), Normalize(answer))}),
          den |-> Len(must_include)]

\* must_include_score: the float hits / len(must_include) as the fraction num/den;
\* 1.0 is [num |-> 1, den |-> 1]
must_include_score(answer, must_include) ==
    IF must_include = <<>> THEN [num |-> 1, den |-> 1]
    ELSE [num |-> CountHits(Normalize(answer), must_include),
          den |-> Len(must_include)]

\* A variant that counts only the first forbidden phrase
must_not_include_violations_first(answer, must_not_include) ==
    IF must_not_include = <<>> THEN 0
    ELSE CountHits(Normalize(answer), <<Head(must_not_include)>>)

\* must_not_include_violations
must_not_include_violations(answer, must_not_include) ==
    IF must_not_include = <<>> THEN 0
    ELSE CountHits(Normalize(answer), must_not_include)

----------------------------------------------------------------------------
(* Floating point: numpy/scipy arithmetic on non-negative values *)

Precision == 11      \* bits of significand kept by every operation

Zero == [m |-> 0, e |-> 0]

\* powers of two
Pow2 == [k \in 0..30 |-> 2^k]

\* number of bits of n >= 1
RECURSIVE BitLenFrom(_, _)
BitLenFrom(n, k) == IF n < Pow2[k] THEN k ELSE BitLenFrom(n, k + 1)

BitLen(n) ==
    IF n < Pow2[Precision] THEN BitLenFrom(n, 1)
    ELSE IF n < Pow2[2 * Precision - 1] THEN BitLenFrom(n, Precision + 1)
    ELSE BitLenFrom(n, 2 * Precision - 1)

\* n * 2^e rounded to nearest, ties to even, into Precision bits
FRound(n, e) ==
    IF n = 0 THEN Zero
    ELSE LET bl == BitLen(n) IN
         IF bl <= Precision
         THEN [m |-> n * Pow2[Precision - bl], e |-> e - (Precision - bl)]
         ELSE LET k  == bl - Precision
                  q  == n \div Pow2[k]
                  r  == n % Pow2[k]
                  h  == Pow2[k - 1]
                  q1 == IF r > h \/ (r = h /\ q % 2 = 1) THEN q + 1 ELSE q
              IN IF q1 = Pow2[Precision]
                 THEN [m |-> Pow2[Precision - 1], e |-> e + k + 1]
                 ELSE [m |-> q1, e |-> e + k]

FromInt(n) == FRound(n, 0)

One == FromInt(1)

FMul(a, b) == FRound(a.m * b.m, a.e + b.e)

FDiv(a, b) ==
    IF a.m = 0 THEN Zero
    ELSE LET k == Precision + 2
             n == a.m * Pow2[k]
             q == n \div b.m
             sticky == IF n % b.m = 0 THEN 0 ELSE 1
         IN FRound(2 * q + sticky, a.e - k - b.e - 1)

FAdd(a, b) ==
    IF a.m = 0 THEN b
    ELSE IF b.m = 0 THEN a
    ELSE LET hi == IF a.e >= b.e THEN a ELSE b
             lo == IF a.e >= b.e THEN b ELSE a
             d  == hi.e - lo.e
         IN IF d > Precision + 1 THEN hi
            ELSE FRound(hi.m * Pow2[d] + lo.m, lo.e)

\* floor of the square root of n
RECURSIVE ISqrtBetween(_, _, _)
ISqrtBetween(n, lo, hi) ==
    IF lo = hi THEN lo
    ELSE LET mid == (lo + hi + 1) \div 2 IN
         IF mid * mid <= n THEN ISqrtBetween(n, mid, hi)
         ELSE ISqrtBetween(n, lo, mid - 1)

FSqrt(a) ==
    IF a.m = 0 THEN Zero
    ELSE LET k0 == Precision + 2
             k  == IF (a.e - k0) % 2 = 0 THEN k0 ELSE k0 + 1
             n  == a.m * Pow2[k]
             s  == ISqrtBetween(n, 0, Pow2[14])
             sticky == IF s * s = n THEN 0 ELSE 1
         IN FRound(2 * s + sticky, ((a.e - k) \div 2) - 1)

\* a < b on normalised non-negative values
FLess(a, b) ==
    IF b.m = 0 THEN FALSE
    ELSE IF a.m = 0 THEN TRUE
    ELSE a.e < b.e \/ (a.e = b.e /\ a.m < b.m)

FLeq(a, b) == ~FLess(b, a)

----------------------------------------------------------------------------
(* TfidfVectorizer(stop_words="english", ngram_range=(1, 2)) and           *)
(* cosine_similarity, as retrieve.py and evaluate.py use them              *)

\* the entries of the English stop-word list that the alphabet can spell
StopWords == {<<"n", "o">>, <<"o", "n">>}

WordChars == {"n", "o"}

\* maximal runs of word characters of a lowercased string, in order
RECURSIVE WordRuns(_, _)
WordRuns(s, run) ==
    IF s = <<>> THEN (IF run = <<>> THEN <<>> ELSE <<run>>)
    ELSE IF Head(s) \in WordChars THEN WordRuns(Tail(s), Append(run, Head(s)))
    ELSE (IF run = <<>> THEN <<>> ELSE <<run>>) \o WordRuns(Tail(s), <<>>)

\* lowercase, token pattern \b\w\w+\b (two or more word characters), stop words removed
Tokens(text) ==
    SelectSeq(WordRuns(Lower(text), <<>>), LAMBDA t : Len(t) >= 2 /\ t \notin StopWords)

\* unigrams followed by bigrams (adjacent surviving tokens joined by a space)
Terms(text) ==
    LET t == Tokens(text) IN
    t \o [i \in 1..(Len(t) - 1) |-> t[i] \o <<" ">> \o t[i + 1]]

\* the set of the entries of a sequence
Range(seq) == {seq[i] : i \in 1..Len(seq)}

\* raw term frequency: occurrences of term t in a sequence of terms
Tf(terms, t) == Cardinality({i \in 1..Len(terms) : terms[i] = t})

CharRank(c) == IF c = " " THEN 0 ELSE IF c = "n" THEN 1 ELSE 2

\* s < t as Python compares strings
RECURSIVE StrLess(_, _)
StrLess(s, t) ==
    IF t = <<>> THEN FALSE
    ELSE IF s = <<>> THEN TRUE
    ELSE IF Head(s) = Head(t) THEN StrLess(Tail(s), Tail(t))
    ELSE CharRank(Head(s)) < CharRank(Head(t))

\* the terms of a set in vocabulary (feature index) order
RECURSIVE SortedTerms(_)
SortedTerms(S) ==
    IF S = {} THEN <<>>
    ELSE LET least == CHOOSE t \in S : \A u \in S \ {t} : StrLess(t, u)
         IN <<least>> \o SortedTerms(S \ {least})

\* (ln((1 + n) / (1 + df)) + 1) * 2^20, rounded
IdfFixed(n, df) ==
    CASE n = 1 -> 1048576
      [] n = 2 -> <<1473737, 1048576>>[df]
      [] n = 3 -> <<1775393, 1350233, 1048576>>[df]
      [] n = 4 -> <<2009376, 1584215, 1282559, 1048576>>[df]
      [] n = 5 -> <<2200554, 1775393, 1473737, 1239754, 1048576>>[df]

\* smoothed inverse document frequency
Idf(n, df) == FRound(IdfFixed(n, df), -20)

\* sum of the squares of a sparse row, accumulated in feature order
RECURSIVE SumSquares(_, _, _)
SumSquares(row, order, acc) ==
    IF order = <<>> THEN acc
    ELSE SumSquares(row, Tail(order),
                    FAdd(acc, FMul(row[Head(order)], row[Head(order)])))

\* normalize(X, norm="l2") on one row; a zero row is left as it is
L2Normalize(row) ==
    LET norm == FSqrt(SumSquares(row, SortedTerms(DOMAIN row), Zero)) IN
    IF norm.m = 0 THEN row
    ELSE [t \in DOMAIN row |-> FDiv(row[t], norm)]

\* fit: the vocabulary and idf learned from a corpus (a sequence of strings)
FitVocabulary(corpus) == UNION {Range(Terms(corpus[i])) : i \in 1..Len(corpus)}

FitIdf(corpus) ==
    LET sets == [i \in 1..Len(corpus) |-> Range(Terms(corpus[i]))] IN
    [t \in UNION Range(sets) |->
        Idf(Len(corpus), Cardinality({i \in 1..Len(corpus) : t \in sets[i]}))]

\* transform: the L2-normalised tf * idf row of a text over a learned vocabulary
Transform(idf, text) ==
    LET terms == Terms(text) IN
    L2Normalize([t \in (Range(terms) \cap DOMAIN idf) |->
                    FMul(FromInt(Tf(terms, t)), idf[t])])

\* dot product of two sparse rows, accumulated in feature order
RECURSIVE Dot(_, _, _, _)
Dot(x, y, order, acc) ==
    IF order = <<>> THEN acc
    ELSE Dot(x, y, Tail(order), FAdd(acc, FMul(x[Head(order)], y[Head(order)])))

\* cosine_similarity of two rows: both are normalised again, then multiplied
cosine_similarity(x, y) ==
    LET xn == L2Normalize(x)
        yn == L2Normalize(y)
    IN Dot(xn, yn, SortedTerms(DOMAIN xn \cap DOMAIN yn), Zero)

----------------------------------------------------------------------------
(* evaluate.py: grounding_score *)

\* A variant without the final clamp
clamp_none(sim) == sim

\* `if sim < 0: return 0.0` / `if sim > 1: return 1.0` / `return float(sim)`
clamp(sim) ==
    IF FLess(sim, Zero) THEN Zero
    ELSE IF FLess(One, sim) THEN One
    ELSE sim

\* grounding_score: status "ok" with the returned value, or "ValueError" when
\* fit_transform raises on an empty vocabulary; vectorizer_built tells whether
\* the TfidfVectorizer was constructed at all
grounding_score(answer, context) ==
    LET a == Strip(answer)
        c == Strip(context)
    IN IF a = <<>> \/ c = <<>>
       THEN [status |-> "ok", value |-> Zero, vectorizer_built |-> FALSE]
       ELSE LET idf == FitIdf(<<a, c>>) IN
            IF DOMAIN idf = {}
            THEN [status |-> "ValueError", vectorizer_built |-> TRUE]
            ELSE
            LET sim == cosine_similarity(Transform(idf, a), Transform(idf, c))
            IN [status |-> "ok", value |-> clamp(sim), vectorizer_built |-> TRUE]

----------------------------------------------------------------------------
(* Inputs of the scoring functions *)

Answers ==
    { <<>>,
      <<" ">>,
      <<"o", "o">>,
      <<"n", "n", " ", "o", "o">>,
      <<"N", "n", " ", "\n", "O", "o", " ">> }

Phrases ==
    { <<>>,
      <<" ">>,
      <<"n", "n">>,
      <<"N", "N">>,
      <<"n", " ", " ", "o">>,
      <<"o", "n">>,
      <<"o", "o", "o">> }

PhraseLists == UNION {[1..n -> Phrases] : n \in 0..MaxPhrases}

GroundTexts ==
    { <<>>,
      <<" ", "\n">>,
      <<"n">>,
      <<"n", "o">>,
      <<"O", "n", " ", "n", "o">>,
      <<"n", "n">>,
      <<" ", "N", "n", "\n">>,
      <<"o", "o">>,
      <<"n", "n", " ", "n", "n">>,
      <<"n", "n", " ", "o", "o">>,
      <<"n", "n", " ", "n", "n", " ", "o", "o">>,
      <<"o", "o", " ", "n", "o", " ", "n", "n">> }

----------------------------------------------------------------------------------------------------------------------------------------
(* The scoring calls of evaluate_run (evaluate.py:109-111).  A behaviour    *)
(* starts with the arguments of one call; the step runs the function.       *)

Idle == [fn |-> "none", done |-> TRUE]

PendingCalls ==
    {[fn |-> "must_include_score", done |-> FALSE, answer |-> a, phrases |-> ps] :
        a \in Answers, ps \in PhraseLists}
    \cup
    {[fn |-> "must_not_include_violations", done |-> FALSE, answer |-> a, phrases |-> ps] :
        a \in Answers, ps \in PhraseLists}
    \cup
    {[fn |-> "grounding_score", done |-> FALSE, answer |-> a, context |-> c] :
        a \in GroundTexts, c \in GroundTexts}

MustIncludeScore ==
    /\ call.fn = "must_include_score" /\ ~call.done
    /\ call' = [fn |-> call.fn, done |-> TRUE,
                answer |-> call.answer, phrases |-> call.phrases,
                result |-> must_include_score(call.answer, call.phrases)]
    /\ UNCHANGED <<retriever, ret, old_csv, new_csv, cmp, report>>

MustNotIncludeViolations ==
    /\ call.fn = "must_not_include_violations" /\ ~call.done
    /\ call' = [fn |-> call.fn, done |-> TRUE,
                answer |-> call.answer, phrases |-> call.phrases,
                result |-> must_not_include_violations(call.answer, call.phrases)]
    /\ UNCHANGED <<retriever, ret, old_csv, new_csv, cmp, report>>

\* the same answer scored again with one more forbidden phrase at the end of the list
AppendForbidden(p) ==
    /\ call.fn = "must_not_include_violations" /\ call.done
    /\ Len(call.phrases) < MaxPhrases
    /\ call' = [call EXCEPT !.phrases = Append(@, p),
                            !.result = must_not_include_violations(
                                           call.answer, Append(call.phrases, p))]
    /\ UNCHANGED <<retriever, ret, old_csv, new_csv, cmp, report>>

GroundingScore ==
    /\ call.fn = "grounding_score" /\ ~call.done
    /\ call' = [fn |-> call.fn, done |-> TRUE,
                answer |-> call.answer, context |-> call.context,
                result |-> grounding_score(call.answer, call.context)]
    /\ UNCHANGED <<retriever, ret, old_csv, new_csv, cmp, report>>

\* no report file has been written
NoReport == [written |-> FALSE]

NoRetriever == [built |-> FALSE]

InitEvaluate ==
    /\ retriever = NoRetriever
    /\ ret = [op |-> "none"]
    /\ call \in PendingCalls
    /\ old_csv = <<>>
    /\ new_csv = <<>>
    /\ cmp = [status |-> "none"]
    /\ report = NoReport

NextEvaluate ==
    \/ MustIncludeScore
    \/ MustNotIncludeViolations
    \/ \E p \in Phrases : AppendForbidden(p)
    \/ GroundingScore

SpecEvaluate == InitEvaluate /\ [][NextEvaluate]_vars

----------------------------------------------------------------------------
(* Properties of the scoring functions *)

MustIncludeDone == call.fn = "must_include_score" /\ call.done
MustNotIncludeDone == call.fn = "must_not_include_violations" /\ call.done
GroundingDone == call.fn = "grounding_score" /\ call.done

IsBlank(s) == \A i \in 1..Len(s) : s[i] \in Whitespace

\* the normalised phrase is a substring of the normalised answer, as Python's
\* `in` decides it (the empty string is a substring of every string)
Occurs(phrase, answer) == Contains(Normalize(phrase), Normalize(answer))

\* the normalised phrase is not empty and is a slice of the normalised answer
OccursNonEmpty(phrase, answer) ==
    LET p == Normalize(phrase)
        a == Normalize(answer)
    IN /\ Len(p) >= 1
       /\ \E i \in 1..Len(a) : i + Len(p) - 1 <= Len(a) /\ SubSeq(a, i, i + Len(p) - 1) = p

\* C6: must_include_score returns 1.0 for an empty phrase list whatever the
\* answer; for a non-empty list it returns (number of entries whose normalised
\* form is non-empty and a substring of the normalised answer) / (number of
\* entries), so the result lies in [0,1] and an entry that normalises to the
\* empty string counts in the denominator but never as a hit.
C6_MustIncludeFraction ==
    MustIncludeDone =>
        /\ call.phrases = <<>> => call.result = [num |-> 1, den |-> 1]
        /\ call.phrases # <<>> =>
              /\ call.result.den = Len(call.phrases)
              /\ call.result.num =
                    Cardinality({i \in 1..Len(call.phrases) :
                                    OccursNonEmpty(call.phrases[i], call.answer)})
        /\ 0 <= call.result.num
        /\ call.result.num <= call.result.den
        /\ call.result.den >= 1

\* C6 witness: a two-entry list, one entry normalising to the empty string and
\* one occurring in the answer, scored 1/2.
C6_Witness ==
    /\ MustIncludeDone
    /\ Len(call.phrases) = 2
    /\ \E i \in 1..2 : Normalize(call.phrases[i]) = <<>>
    /\ call.result = [num |-> 1, den |-> 2]

\* a step from one finished must_not_include_violations call to the call with
\* the same answer and one more phrase appended to the list
AppendStep ==
    /\ MustNotIncludeDone
    /\ call'.fn = "must_not_include_violations" /\ call'.done
    /\ call'.answer = call.answer
    /\ Len(call'.phrases) = Len(call.phrases) + 1
    /\ SubSeq(call'.phrases, 1, Len(call.phrases)) = call.phrases

LastPhrase(c) == c.phrases[Len(c.phrases)]

\* C7 as stated: the count is a non-negative integer, 0 when the list is empty
\* or no listed phrase occurs in the normalised answer; appending a phrase that
\* occurs raises it by exactly 1, appending one that does not leaves it
\* unchanged; an answer containing p scores coverage 1.0 against [p] and one
\* violation against [p].
C7_AsStated ==
    /\ [](MustNotIncludeDone =>
            /\ call.result \in Nat
            /\ (\A i \in 1..Len(call.phrases) : ~Occurs(call.phrases[i], call.answer))
                  => call.result = 0
            /\ (Len(call.phrases) = 1 /\ Occurs(call.phrases[1], call.answer))
                  => call.result = 1)
    /\ [](MustIncludeDone =>
            ((Len(call.phrases) = 1 /\ Occurs(call.phrases[1], call.answer))
                  => call.result.num = call.result.den))
    /\ [][AppendStep =>
            call'.result = call.result +
                (IF Occurs(LastPhrase(call'), call.answer) THEN 1 ELSE 0)]_vars

\* C7 amended: the same, where a phrase "occurs" only if its normalised form is
\* non-empty and is a substring of the normalised answer.
C7_ViolationsMonotone ==
    /\ [](MustNotIncludeDone =>
            /\ call.result \in Nat
            /\ (\A i \in 1..Len(call.phrases) : ~OccursNonEmpty(call.phrases[i], call.answer))
                  => call.result = 0
            /\ (Len(call.phrases) = 1 /\ OccursNonEmpty(call.phrases[1], call.answer))
                  => call.result = 1)
    /\ [](MustIncludeDone =>
            ((Len(call.phrases) = 1 /\ OccursNonEmpty(call.phrases[1], call.answer))
                  => call.result.num = call.result.den))
    /\ [][AppendStep =>
            call'.result = call.result +
                (IF OccursNonEmpty(LastPhrase(call'), call.answer) THEN 1 ELSE 0)]_vars

\* C7 witness: a list of two forbidden phrases that both occur, counted 2.
C7_Witness ==
    /\ MustNotIncludeDone
    /\ Len(call.phrases) = 2
    /\ call.phrases[1] # call.phrases[2]
    /\ \A i \in 1..2 : OccursNonEmpty(call.phrases[i], call.answer)
    /\ call.result = 2

\* C8 as stated: grounding_score(x, x) returns 1.0 for every x that is not
\* empty or whitespace-only, and never ends in an error for such an x.
C8_SelfGroundingIsOne ==
    (GroundingDone /\ call.answer = call.context /\ ~IsBlank(call.answer)) =>
        /\ call.result.status = "ok"
        /\ call.result.value = One

----------------------------------------------------------------------------
(* retrieve.py: TfidfRetriever *)

MaxDocs == 2         \* largest document collection
MinTopK == 0 - 1     \* smallest top_k passed to retrieve

\* (title, text) of the documents a collection is drawn from
DocBodies ==
    { [title |-> <<>>,           text |-> <<"n", "n", " ", "o", "o">>],
      [title |-> <<"O", "o">>,   text |-> <<"n", "n">>],
      [title |-> <<"n", "n">>,   text |-> <<"o", "n", " ", "n", "n", " ", "o", "o">>],
      [title |-> <<>>,           text |-> <<"n", "o", " ", "n">>] }

\* Document(doc_id, title, text); doc_id is unique within a collection
Document(i, body) == [doc_id |-> i, title |-> body.title, text |-> body.text]

Collections ==
    UNION {{[i \in 1..n |-> Document(i, bodies[i])] : bodies \in [1..n -> DocBodies]} :
              n \in 0..MaxDocs}

Queries ==
    { <<>>,
      <<" ", "\n">>,
      <<"n", "o">>,
      <<"n", "n">>,
      <<"N", "N", " ", "o", "o">>,
      <<"o", "o", " ", "n", "n">> }

TopKs == MinTopK..(MaxDocs + 1)

\* corpus = [f"{d.title}\n{d.text}" for d in self._docs]
Corpus(docs) == [i \in 1..Len(docs) |-> docs[i].title \o <<"\n">> \o docs[i].text]

\* A variant of the argument checks that lets top_k = 0 through
retrieve_rejects_negative(query, top_k) ==
    \/ query = <<>> \/ Strip(query) = <<>>
    \/ top_k < 0

\* the argument checks of retrieve: `not query or not query.strip()`, `top_k <= 0`
retrieve_rejects(query, top_k) ==
    \/ query = <<>> \/ Strip(query) = <<>>
    \/ top_k <= 0

\* sims.argsort(): numpy's default sort kind is not stable, so the result is any
\* permutation of the indices that puts the scores in non-decreasing order
ArgSorts(sims) ==
    {p \in [1..Len(sims) -> 1..Len(sims)] :
        /\ \A i, j \in 1..Len(sims) : i # j => p[i] # p[j]
        /\ \A i \in 1..(Len(sims) - 1) : FLeq(sims[p[i]], sims[p[i + 1]])}

\* order[::-1][:top_k]
ReversedTopK(order, top_k) ==
    LET n == Len(order)
        k == IF top_k < n THEN top_k ELSE n
    IN [i \in 1..k |-> order[n + 1 - i]]

\* RetrievedDoc(doc_id, title, text, score) for each ranked index
Retrieved(docs, sims, ranked_idx) ==
    [i \in 1..Len(ranked_idx) |->
        [doc_id |-> docs[ranked_idx[i]].doc_id,
         title  |-> docs[ranked_idx[i]].title,
         text   |-> docs[ranked_idx[i]].text,
         score  |-> sims[ranked_idx[i]]]]

\* TfidfRetriever.__init__: raises on an empty collection, and fit_transform
\* raises on a corpus without any vocabulary term; otherwise the object holds
\* the documents, the fitted vectorizer (vocabulary and idf) and the matrix.
\* The max_features cap of 5000 terms is above every vocabulary of the bounds.
TfidfRetriever_init(documents) ==
    /\ ~retriever.built
    /\ IF documents = <<>>
       THEN /\ ret' = [op |-> "init", status |-> "ValueError", documents |-> documents]
            /\ UNCHANGED retriever
       ELSE LET idf == FitIdf(Corpus(documents)) IN
            IF DOMAIN idf = {}
            THEN /\ ret' = [op |-> "init", status |-> "ValueError", documents |-> documents]
                 /\ UNCHANGED retriever
            ELSE /\ retriever' =
                       [built |-> TRUE,
                        docs |-> documents,
                        idf |-> idf,
                        doc_matrix |-> [i \in 1..Len(documents) |->
                                           Transform(idf, Corpus(documents)[i])]]
                 /\ ret' = [op |-> "init", status |-> "ok", documents |-> documents]
    /\ UNCHANGED <<call, old_csv, new_csv, cmp, report>>

\* q_vec = self._vectorizer.transform([query]);
\* sims = cosine_similarity(q_vec, self._doc_matrix).flatten()
Similarities(r, query) ==
    LET q_vec == Transform(r.idf, query) IN
    [i \in 1..Len(r.docs) |-> cosine_similarity(q_vec, r.doc_matrix[i])]

\* TfidfRetriever.retrieve(query, top_k=top_k), for every top_k of TopKs
Retrieve(query) ==
    /\ retriever.built
    \* the similarities are evaluated once for all top_k; a rejected call does not use them
    /\ \E sims \in {Similarities(retriever, query)}, top_k \in TopKs :
            IF retrieve_rejects(query, top_k)
            THEN ret' = [op |-> "retrieve", status |-> "ValueError",
                         query |-> query, top_k |-> top_k, results |-> <<>>]
            ELSE \E order \in ArgSorts(sims) :
                   LET ranked_idx == ReversedTopK(order, top_k) IN
                   ret' = [op |-> "retrieve", status |-> "ok",
                           query |-> query, top_k |-> top_k,
                           sims |-> sims, ranked_idx |-> ranked_idx,
                           results |-> Retrieved(retriever.docs, sims, ranked_idx)]
    /\ UNCHANGED <<retriever, call, old_csv, new_csv, cmp, report>>

InitRetrieve ==
    /\ retriever = NoRetriever
    /\ ret = [op |-> "none"]
    /\ call = Idle
    /\ old_csv = <<>>
    /\ new_csv = <<>>
    /\ cmp = [status |-> "none"]
    /\ report = NoReport

NextRetrieve ==
    \/ \E documents \in Collections : TfidfRetriever_init(documents)
    \/ \E query \in Queries : Retrieve(query)

SpecRetrieve == InitRetrieve /\ [][NextRetrieve]_vars

----------------------------------------------------------------------------
(* Properties of the retriever *)

RetrieveOk == ret.op = "retrieve" /\ ret.status = "ok"

\* position of document index i in the returned ranking (0 when it is absent)
Rank(i) ==
    IF \E r \in 1..Len(ret.ranked_idx) : ret.ranked_idx[r] = i
    THEN CHOOSE r \in 1..Len(ret.ranked_idx) : ret.ranked_idx[r] = i
    ELSE 0

\* C1 as stated: whenever two documents get equal similarity scores, the one
\* earlier in the collection appears earlier in the returned ranking, and when
\* only some of the tied documents fit in the top k the earlier ones are kept
\* (this includes the case where every document scores 0).
C1_TiesKeepCollectionOrder ==
    RetrieveOk =>
        \A i, j \in 1..Len(retriever.docs) :
            (i < j /\ ret.sims[i] = ret.sims[j] /\ Rank(j) # 0) =>
                (Rank(i) # 0 /\ Rank(i) < Rank(j))

\* the ranking returned by retrieve: exactly min(k, N) results, each a distinct
\* document of the collection carrying its own score, in non-increasing score
\* order, no omitted document scoring strictly higher than a returned one
RankingWellFormed ==
    /\ (ret.op = "retrieve" /\ ~IsBlank(ret.query) /\ ret.top_k > 0) => ret.status = "ok"
    /\ RetrieveOk =>
        LET n == Len(retriever.docs) IN
        /\ Len(ret.results) = (IF ret.top_k < n THEN ret.top_k ELSE n)
        /\ Len(ret.ranked_idx) = Len(ret.results)
        /\ \A r \in 1..Len(ret.results) :
              /\ ret.ranked_idx[r] \in 1..n
              /\ ret.results[r].doc_id = retriever.docs[ret.ranked_idx[r]].doc_id
              /\ ret.results[r].title = retriever.docs[ret.ranked_idx[r]].title
              /\ ret.results[r].text = retriever.docs[ret.ranked_idx[r]].text
              /\ ret.results[r].score = ret.sims[ret.ranked_idx[r]]
        /\ \A r1, r2 \in 1..Len(ret.results) :
              r1 # r2 => ret.ranked_idx[r1] # ret.ranked_idx[r2]
        /\ \A r \in 1..(Len(ret.results) - 1) :
              FLeq(ret.results[r + 1].score, ret.results[r].score)
        /\ \A i \in 1..n, r \in 1..Len(ret.results) :
              Rank(i) = 0 => FLeq(ret.sims[i], ret.results[r].score)

\* every returned score is >= 0 and <= 1
ScoresInUnitInterval ==
    RetrieveOk =>
        \A r \in 1..Len(ret.results) :
            FLeq(Zero, ret.results[r].score) /\ FLeq(ret.results[r].score, One)

\* C2 as stated: retrieve returns exactly min(k, N) results (all N, without
\* error, when k > N), each a distinct document of the collection carrying its
\* own score, every score >= 0 and <= 1, in non-increasing score order, with no
\* omitted document scoring strictly higher than a returned one.
C2_TopKContract == RankingWellFormed /\ ScoresInUnitInterval

\* C10: building a retriever from an empty collection raises and yields no
\* index; retrieve with an empty or whitespace-only query, or with top_k <= 0,
\* raises before any ranking, returns no results and leaves the index
\* (documents, vocabulary, document vectors) as it was, so that the retrieve
\* calls that follow see the index the failed call found.
C10_InvalidArgumentsRejected ==
    /\ []((ret.op = "init" /\ ret.documents = <<>>) =>
            (ret.status = "ValueError" /\ ~retriever.built))
    /\ []((ret.op = "init" /\ ret.status = "ValueError") => retriever = NoRetriever)
    /\ [][(ret'.op = "retrieve" /\ (IsBlank(ret'.query) \/ ret'.top_k <= 0)) =>
            /\ ret'.status = "ValueError"
            /\ ret'.results = <<>>
            /\ "ranked_idx" \notin DOMAIN ret'
            /\ retriever' = retriever]_vars
    /\ [][(ret.op = "retrieve" /\ ret.status = "ValueError") =>
            retriever' = retriever]_vars

\* C10 witness: retrieve with top_k = 0 and a proper query has failed on an
\* index of two documents, which is still in place.
C10_Witness ==
    /\ ret.op = "retrieve" /\ ret.status = "ValueError"
    /\ ~IsBlank(ret.query) /\ ret.top_k = 0
    /\ retriever.built /\ Len(retriever.docs) = 2
    /\ Len(retriever.doc_matrix) = 2

----------------------------------------------------------------------------
(* report.py: load_eval_csv, fnum, compare_runs *)

MaxRows == 2         \* most rows of a scored-run table

Digits == {"0", "1", "2", "3", "4", "5", "6", "7", "8", "9"}

DigitValue(c) ==
    CASE c = "0" -> 0 [] c = "1" -> 1 [] c = "2" -> 2 [] c = "3" -> 3 [] c = "4" -> 4
      [] c = "5" -> 5 [] c = "6" -> 6 [] c = "7" -> 7 [] c = "8" -> 8 [] c = "9" -> 9

IsDigits(s) == s # <<>> /\ \A i \in 1..Len(s) : s[i] \in Digits

RECURSIVE DigitsValue(_)
DigitsValue(s) ==
    IF s = <<>> THEN 0
    ELSE 10 * DigitsValue(SubSeq(s, 1, Len(s) - 1)) + DigitValue(s[Len(s)])

\* int(x) on a cell of decimal digits
ParseInt(s) == DigitsValue(s)

\* float(x) on a cell "d", "d.ddd" or ".ddd" with at most three decimals, in
\* thousandths; ok is FALSE where float() raises
ParseFloat(s) ==
    LET dots == {i \in 1..Len(s) : s[i] = "."} IN
    IF dots = {}
    THEN [ok |-> IsDigits(s), milli |-> IF IsDigits(s) THEN 1000 * DigitsValue(s) ELSE 0]
    ELSE LET d     == CHOOSE i \in dots : TRUE
             whole == SubSeq(s, 1, d - 1)
             frac  == SubSeq(s, d + 1, Len(s))
             good  == /\ Cardinality(dots) = 1
                      /\ whole = <<>> \/ IsDigits(whole)
                      /\ frac = <<>> \/ IsDigits(frac)
                      /\ whole # <<>> \/ frac # <<>>
                      /\ Len(frac) <= 3
         IN [ok |-> good,
             milli |-> IF good
                       THEN 1000 * DigitsValue(whole)
                            + DigitsValue(frac) *
                              (CASE Len(frac) = 0 -> 0 [] Len(frac) = 1 -> 100
                                 [] Len(frac) = 2 -> 10 [] Len(frac) = 3 -> 1)
                       ELSE 0]

\* fnum(x, default=0.0): float(x), or the default when float() raises
fnum(x) == IF ParseFloat(x).ok THEN ParseFloat(x).milli ELSE 0

\* question ids, in the order Python sorts them
QuestionIds == <<"q1", "q2", "q3">>

IdRank(qid) == CHOOSE i \in 1..Len(QuestionIds) : QuestionIds[i] = qid

\* rows of scored-run tables as csv.DictReader yields them: every cell a string.
\* must_not_include_violations is written from an int (evaluate.py:120); the
\* scores are multiples of 1/4, for which binary64 arithmetic is exact.
EvalRows ==
    { [id |-> "q1", question |-> "why",
       must_include_score |-> <<"1", ".", "0">>, grounding_score |-> <<"0", ".", "5">>,
       must_not_include_violations |-> <<"0">>],
      [id |-> "q1", question |-> "why not",
       must_include_score |-> <<"0", ".", "5">>, grounding_score |-> <<"0", ".", "2", "5">>,
       must_not_include_violations |-> <<"2">>],
      [id |-> "q2", question |-> "how",
       must_include_score |-> <<"0", ".", "0">>, grounding_score |-> <<>>,
       must_not_include_violations |-> <<"1">>],
      [id |-> "q2", question |-> "how",
       must_include_score |-> <<"1", ".", "0">>, grounding_score |-> <<"1", ".", "0">>,
       must_not_include_violations |-> <<"0">>],
      [id |-> "q3", question |-> "when",
       must_include_score |-> <<"0", ".", "2", "5">>, grounding_score |-> <<"0", ".", "5">>,
       must_not_include_violations |-> <<"1">>],
      [id |-> "q3", question |-> "when",
       must_include_score |-> <<"0", ".", "5">>, grounding_score |-> <<"0", ".", "2", "5">>,
       must_not_include_violations |-> <<"3">>] }

Tables == UNION {[1..n -> EvalRows] : n \in 0..MaxRows}

\* the loop of load_eval_csv: rows[qid] = row, a later row replacing an earlier one
RECURSIVE LoadRows(_, _)
LoadRows(rows, acc) ==
    IF rows = <<>> THEN acc
    ELSE LoadRows(Tail(rows),
                  [q \in DOMAIN acc \cup {Head(rows).id} |->
                      IF q = Head(rows).id THEN Head(rows) ELSE acc[q]])

EmptyDict == [q \in {} |-> 0]

\* load_eval_csv: the dict of rows by id; ok is FALSE where it raises (no rows)
load_eval_csv(rows) ==
    LET loaded == LoadRows(rows, EmptyDict) IN
    [ok |-> DOMAIN loaded # {}, rows |-> loaded]

\* the ids of a set in sorted order
RECURSIVE SortedIds(_)
SortedIds(S) ==
    IF S = {} THEN <<>>
    ELSE LET least == CHOOSE q \in S : \A r \in S : IdRank(q) <= IdRank(r)
         IN <<least>> \o SortedIds(S \ {least})

\* A variant that loses the first common id
common_ids_skip_first(old, new) ==
    LET ids == SortedIds(DOMAIN old \cap DOMAIN new) IN
    IF ids = <<>> THEN <<>> ELSE Tail(ids)

\* common_ids = sorted(set(old) & set(new))
common_ids(old, new) == SortedIds(DOMAIN old \cap DOMAIN new)

\* A variant that reports the new run's values instead of the differences
row_delta_no_baseline(qid, o, n) ==
    [id |-> qid,
     question |-> n.question,
     delta_must_include |-> fnum(n.must_include_score),
     delta_grounding |-> fnum(n.grounding_score),
     delta_violations |-> ParseInt(n.must_not_include_violations)]

\* the dict d built for one common id (scores in thousandths)
row_delta(qid, o, n) ==
    [id |-> qid,
     question |-> n.question,
     delta_must_include |-> fnum(n.must_include_score) - fnum(o.must_include_score),
     delta_grounding |-> fnum(n.grounding_score) - fnum(o.grounding_score),
     delta_violations |-> ParseInt(n.must_not_include_violations)
                          - ParseInt(o.must_not_include_violations)]

\* sum(...) of a sequence of numbers
RECURSIVE Sum(_)
Sum(seq) == IF seq = <<>> THEN 0 ELSE Head(seq) + Sum(Tail(seq))

\* round(x, 3) of x = total / n thousandths: the nearest thousandth, an exact
\* half going to the even neighbour
RoundDiv(total, n) ==
    LET q == total \div n
        r == total % n
    IN IF 2 * r < n THEN q
       ELSE IF 2 * r > n THEN q + 1
       ELSE IF q % 2 = 0 THEN q ELSE q + 1

\* A variant that nets decreases against increases
total_net_violations(deltas) ==
    Sum([i \in 1..Len(deltas) |-> deltas[i].delta_violations])

\* sum(max(0, d["delta_violations"]) for d in deltas)
total_new_violations(deltas) ==
    Sum([i \in 1..Len(deltas) |->
            IF deltas[i].delta_violations > 0 THEN deltas[i].delta_violations ELSE 0])

\* compare_runs: status "ValueError" where it raises, else the summary and deltas
compare_runs(old_rows, new_rows) ==
    LET old == load_eval_csv(old_rows)
        new == load_eval_csv(new_rows)
    IN IF ~old.ok \/ ~new.ok THEN [status |-> "ValueError"]
       ELSE LET ids == common_ids(old.rows, new.rows) IN
            IF ids = <<>> THEN [status |-> "ValueError"]
            ELSE LET deltas == [i \in 1..Len(ids) |->
                                   row_delta(ids[i], old.rows[ids[i]], new.rows[ids[i]])]
                 IN [status |-> "ok",
                     summary |->
                       [count |-> Len(deltas),
                        avg_delta_must_include |->
                            RoundDiv(Sum([i \in 1..Len(deltas) |->
                                             deltas[i].delta_must_include]),
                                     Len(deltas)),
                        avg_delta_grounding |->
                            RoundDiv(Sum([i \in 1..Len(deltas) |->
                                             deltas[i].delta_grounding]),
                                     Len(deltas)),
                        total_new_violations |-> total_new_violations(deltas)],
                     deltas |-> deltas]

\* one run of compare_runs on the two tables
CompareRuns ==
    /\ cmp.status = "none"
    /\ cmp' = compare_runs(old_csv, new_csv)
    /\ UNCHANGED <<retriever, ret, call, old_csv, new_csv, report>>

\* top_n: int = 5, the value main() runs with
DefaultTopN == 5

MinTopN == 0 - 1

\* the values of top_n: negative, zero, below and above the number of deltas,
\* and the default
TopNs == (MinTopN..(MaxRows + 1)) \cup {DefaultTopN}

\* A variant whose sort key also counts the violations (1 violation = 1.0)
combined_delta_with_violations(d) ==
    d.delta_must_include + d.delta_grounding + 1000 * d.delta_violations

\* key=lambda d: (d["delta_must_include"] + d["delta_grounding"]), in thousandths
combined_delta(d) == d.delta_must_include + d.delta_grounding

\* one step of a stable ascending sort: d goes behind every entry whose key is
\* not greater than its own
InsertByKey(sorted, d) ==
    LET before == {i \in 1..Len(sorted) : combined_delta(sorted[i]) <= combined_delta(d)}
        k      == Cardinality(before)
    IN SubSeq(sorted, 1, k) \o <<d>> \o SubSeq(sorted, k + 1, Len(sorted))

\* sorted(deltas, key=...): ascending by key, equal keys in their order in deltas
RECURSIVE sorted_by_key(_)
sorted_by_key(deltas) ==
    IF deltas = <<>> THEN <<>>
    ELSE InsertByKey(sorted_by_key(SubSeq(deltas, 1, Len(deltas) - 1)), deltas[Len(deltas)])

\* seq[:n]: the first n entries, all of them when n exceeds the length, and all
\* but the last -n when n is negative
Slice(seq, n) ==
    LET stop == IF n >= 0 THEN (IF n < Len(seq) THEN n ELSE Len(seq))
                ELSE (IF Len(seq) + n > 0 THEN Len(seq) + n ELSE 0)
    IN SubSeq(seq, 1, stop)

\* worst = sorted(deltas, key=...)[:top_n]
worst_regressions(deltas, top_n) == Slice(sorted_by_key(deltas), top_n)

\* write_markdown_report(old_csv, new_csv, summary, deltas, out_path, top_n), run
\* once on the result of compare_runs as main() does
WriteMarkdownReport(top_n) ==
    /\ cmp.status = "ok"
    /\ ~report.written
    /\ report' = [written |-> TRUE,
                  top_n   |-> top_n,
                  summary |-> cmp.summary,
                  worst   |-> worst_regressions(cmp.deltas, top_n)]
    /\ UNCHANGED <<retriever, ret, call, old_csv, new_csv, cmp>>

InitCompare ==
    /\ retriever = NoRetriever
    /\ ret = [op |-> "none"]
    /\ call = Idle
    /\ old_csv \in Tables
    /\ new_csv \in Tables
    /\ cmp = [status |-> "none"]
    /\ report = NoReport

NextCompare ==
    \/ CompareRuns
    \/ \E top_n \in TopNs : WriteMarkdownReport(top_n)

SpecCompare == InitCompare /\ [][NextCompare]_vars

----------------------------------------------------------------------------
(* Properties of the regression analyzer *)

CompareDone == cmp.status # "none"

\* the question ids of a table
IdsOf(rows) == {rows[i].id : i \in 1..Len(rows)}

\* the row a table holds for a question id: the last one written with it
RowOf(rows, qid) ==
    rows[CHOOSE i \in 1..Len(rows) :
            /\ rows[i].id = qid
            /\ \A j \in (i + 1)..Len(rows) : rows[j].id # qid]

ViolationsOf(rows, qid) == DigitsValue(RowOf(rows, qid).must_not_include_violations)

DeltaIds == {cmp.deltas[i].id : i \in 1..Len(cmp.deltas)}

\* C3: compare_runs produces exactly one delta per question id present in both
\* runs and none for an id present in only one of them; when the runs share no
\* id it raises an error and returns neither summary nor deltas.
C3_DeltasForCommonIds ==
    CompareDone =>
        LET common == IdsOf(old_csv) \cap IdsOf(new_csv) IN
        /\ common = {} =>
              /\ cmp.status = "ValueError"
              /\ DOMAIN cmp = {"status"}
        /\ common # {} =>
              /\ cmp.status = "ok"
              /\ DeltaIds = common
              /\ Len(cmp.deltas) = Cardinality(common)

\* C3 witness: the runs share one id and each holds an id the other lacks; one
\* delta is produced.
C3_Witness ==
    /\ CompareDone /\ cmp.status = "ok"
    /\ IdsOf(old_csv) \ IdsOf(new_csv) # {}
    /\ IdsOf(new_csv) \ IdsOf(old_csv) # {}
    /\ Len(cmp.deltas) = 1

\* C4: comparing a non-empty run against itself yields, for every question id
\* of the run, all three deltas 0, a count equal to the number of distinct
\* ids, both average deltas 0 and total_new_violations 0.
C4_SelfCompareIsZero ==
    (CompareDone /\ old_csv = new_csv /\ old_csv # <<>>) =>
        /\ cmp.status = "ok"
        /\ DeltaIds = IdsOf(old_csv)
        /\ \A i \in 1..Len(cmp.deltas) :
              /\ cmp.deltas[i].delta_must_include = 0
              /\ cmp.deltas[i].delta_grounding = 0
              /\ cmp.deltas[i].delta_violations = 0
        /\ cmp.summary.count = Cardinality(IdsOf(old_csv))
        /\ cmp.summary.avg_delta_must_include = 0
        /\ cmp.summary.avg_delta_grounding = 0
        /\ cmp.summary.total_new_violations = 0

\* C4 witness: a run of two questions with non-zero scores and violations,
\* compared against itself.
C4_Witness ==
    /\ CompareDone /\ old_csv = new_csv
    /\ Cardinality(IdsOf(old_csv)) = 2
    /\ \E i \in 1..Len(old_csv) : ViolationsOf(old_csv, old_csv[i].id) > 0
    /\ \E i \in 1..Len(old_csv) : fnum(old_csv[i].must_include_score) > 0
    /\ cmp.summary.count = 2

\* sum over a set of ids of max(0, new violations - old violations)
RECURSIVE NewViolations(_)
NewViolations(ids) ==
    IF ids = {} THEN 0
    ELSE LET q == CHOOSE x \in ids : TRUE
             d == ViolationsOf(new_csv, q) - ViolationsOf(old_csv, q)
         IN (IF d > 0 THEN d ELSE 0) + NewViolations(ids \ {q})

\* C5: total_new_violations is the sum over the common ids of
\* max(0, new count - old count): a decrease contributes 0 and never offsets
\* another question's increase, so the total is >= 0 and at least the plain
\* sum of delta_violations.
C5_TotalNewViolations ==
    (CompareDone /\ cmp.status = "ok") =>
        /\ cmp.summary.total_new_violations =
              NewViolations(IdsOf(old_csv) \cap IdsOf(new_csv))
        /\ cmp.summary.total_new_violations >= 0
        /\ cmp.summary.total_new_violations >=
              Sum([i \in 1..Len(cmp.deltas) |-> cmp.deltas[i].delta_violations])

\* C5 witness: one question gained violations and another lost some; the total
\* counts the gain alone.
C5_Witness ==
    /\ CompareDone /\ cmp.status = "ok"
    /\ \E i, j \in 1..Len(cmp.deltas) :
          /\ cmp.deltas[i].delta_violations > 0
          /\ cmp.deltas[j].delta_violations < 0
          /\ cmp.summary.total_new_violations = cmp.deltas[i].delta_violations

ReportWritten == report.written

\* delta_must_include + delta_grounding of one entry, in thousandths
QualityChange(d) == d.delta_must_include + d.delta_grounding

Listed(d) == \E i \in 1..Len(report.worst) : report.worst[i] = d

\* the deltas with every delta_violations replaced by 0
WithoutViolations(deltas) ==
    [i \in 1..Len(deltas) |-> [deltas[i] EXCEPT !.delta_violations = 0]]

IdSeq(deltas) == [i \in 1..Len(deltas) |-> deltas[i].id]

\* C11: the worst-regressions list of the report is made of entries of the
\* deltas, one per listed question; for top_n >= 0 it has top_n entries, or all
\* of them when fewer exist; listed entries are in non-decreasing order of
\* delta_must_include + delta_grounding; no omitted question has a strictly
\* smaller combined delta than a listed one; and the listed ids and their order
\* are the same when every delta_violations is replaced by 0.
C11_WorstRegressions ==
    ReportWritten =>
        LET worst  == report.worst
            deltas == cmp.deltas
            n      == report.top_n
        IN /\ \A i \in 1..Len(worst) : \E j \in 1..Len(deltas) : worst[i] = deltas[j]
           /\ \A i, k \in 1..Len(worst) : i # k => worst[i].id # worst[k].id
           /\ n >= 0 => Len(worst) = (IF n < Len(deltas) THEN n ELSE Len(deltas))
           /\ \A i, k \in 1..Len(worst) :
                 i < k => QualityChange(worst[i]) <= QualityChange(worst[k])
           /\ \A j \in 1..Len(deltas) :
                 ~Listed(deltas[j]) =>
                     \A i \in 1..Len(worst) :
                        ~(QualityChange(deltas[j]) < QualityChange(worst[i]))
           /\ IdSeq(worst) = IdSeq(worst_regressions(WithoutViolations(deltas), n))

\* C11 witness: of two deltas only one is listed, the later one in id order,
\* and the omitted question has the larger combined delta although its
\* delta_violations is the smaller.
C11_Witness ==
    /\ ReportWritten
    /\ report.top_n = 1
    /\ Len(cmp.deltas) = 2
    /\ report.worst = <<cmp.deltas[2]>>
    /\ QualityChange(cmp.deltas[1]) > QualityChange(cmp.deltas[2])
    /\ cmp.deltas[1].delta_violations < cmp.deltas[2].delta_violations

\* two questions with the same combined delta, the later one in id order having
\* lost violations: the report lists the earlier one alone
TieListsEarlierQuestion ==
    /\ ReportWritten
    /\ report.top_n = 1
    /\ Len(cmp.deltas) = 2
    /\ QualityChange(cmp.deltas[1]) = QualityChange(cmp.deltas[2])
    /\ cmp.deltas[2].delta_violations < cmp.deltas[1].delta_violations
    /\ report.worst = <<cmp.deltas[1]>>

====
